---- MODULE Spec2Model ----
(***************************************************************************)
(* Retrieval engine of the financial data assistant:                       *)
(*   services/embedding_service.py      EmbeddingService                   *)
(*   services/vector_search_service.py  VectorSearchService                *)
(* One VectorSearchService instance (owning one EmbeddingService) and the  *)
(* two snapshot files it shares with the setup script are modelled.        *)
(* The sentence-transformer and the FAISS flat L2 index are external       *)
(* collaborators, modelled at their interface: a deterministic text ->     *)
(* vector function and an exact k-nearest-neighbour search that pads a     *)
(* short answer with label -1 and distance FLT_MAX.                        *)
(***************************************************************************)
EXTENDS Integers, Sequences, FiniteSets, TLC

VARIABLES
    index,          \* EmbeddingService.index: None or an IndexFlatL2
    transactions,   \* EmbeddingService.transactions: list of dicts
    is_ready,       \* VectorSearchService.is_ready
    idxFile,        \* file at index_path
    txFile,         \* file at transactions_path
    out,            \* outcome of the last call: op, args, status, res
    calls           \* search calls in progress, one per caller, step by step

vars == <<index, transactions, is_ready, idxFile, txFile, out, calls>>

-----------------------------------------------------------------------------
(* Bounds *)

MaxTx == 2      \* longest transaction list handed to build_index
MaxK  == 2      \* largest top_k handed to VectorSearchService.search
MaxCallers == 2 \* callers that may have a call in progress at the same time
Callers == 1..MaxCallers

-----------------------------------------------------------------------------
(* Values *)

\* Python None for the index attribute
None == [none |-> TRUE]

\* An Optional[...] argument is the empty set (None) or a singleton.
Unset == {}
IsSet(opt) == opt # {}
ValueOf(opt) == CHOOSE v \in opt : TRUE

\* Sample transaction records as FinancialDataGenerator writes them (the
\* fields the engine reads; amounts in whole units).
Txn1 == [transaction_id |-> "TXN000001", user_id |-> "USER001",
         timestamp |-> "2024-03-01T09:30:00",
         description |-> "Cafe at Cafe - Acme", merchant |-> "Cafe - Acme",
         category |-> "Food & Dining", subcategory |-> "Cafe",
         amount |-> 1, currency |-> "INR", type |-> "debit",
         payment_method |-> "UPI", notes |-> ""]
Txn2 == [transaction_id |-> "TXN000002", user_id |-> "USER002",
         timestamp |-> "2024-02-01T18:00:00",
         description |-> "Salary at Initech", merchant |-> "Initech",
         category |-> "Income", subcategory |-> "Salary",
         amount |-> 3, currency |-> "INR", type |-> "credit",
         payment_method |-> "Net Banking", notes |-> "Monthly pay."]
TxUniverse == {Txn1, Txn2}

\* Lists of at most n transactions with pairwise distinct ids.
RECURSIVE TxLists(_)
TxLists(n) ==
    IF n = 0 THEN {<<>>}
    ELSE LET shorter == TxLists(n - 1)
         IN  shorter \cup
             {Append(p[1], p[2]) :
                 p \in {c \in shorter \X TxUniverse :
                          /\ Len(c[1]) = n - 1
                          /\ \A i \in 1..Len(c[1]) : c[1][i].transaction_id # c[2].transaction_id}}

\* query texts of EmbeddingService.search, and the one used through
\* VectorSearchService.search
Queries ==
    {"how much did I spend on coffee and eating out with friends, per month, over the last half year",
     "when was my monthly salary credited to the bank account, and how much income did I receive in total this year"}
SearchQueries ==
    {"when was my monthly salary credited to the bank account, and how much income did I receive in total this year"}

-----------------------------------------------------------------------------
(* Embedding collaborator *)

RECURSIVE JoinParts(_)
\* " | ".join(parts)
JoinParts(parts) ==
    IF parts = <<>> THEN ""
    ELSE IF Len(parts) = 1 THEN parts[1]
    ELSE parts[1] \o " | " \o JoinParts(Tail(parts))

NonEmpty(p) == p # ""

\* EmbeddingService.create_transaction_text
create_transaction_text(t) ==
    JoinParts(SelectSeq(<<t.description,
                          t.category,
                          t.subcategory,
                          t.merchant,
                          "Amount: " \o ToString(t.amount) \o " " \o t.currency,
                          "Type: " \o t.type,
                          "Payment: " \o t.payment_method,
                          t.notes>>, NonEmpty))

\* SentenceTransformer.encode on one text: an opaque deterministic function
\* of the text, here a one-dimensional vector.
Encode(text) == Len(text)

\* EmbeddingService.create_embeddings: one vector per transaction, in order
create_embeddings(txs) ==
    [i \in 1..Len(txs) |-> Encode(create_transaction_text(txs[i]))]

-----------------------------------------------------------------------------
(* FAISS collaborator: IndexFlatL2 *)

\* Distance reported for a missing neighbour (label -1).
FLT_MAX == 1000000

\* faiss.IndexFlatL2(dimension), empty
IndexFlatL2 == [none |-> FALSE, xb |-> <<>>]

\* index.add(embeddings)
IndexAdd(ix, embeddings) == [ix EXCEPT !.xb = ix.xb \o embeddings]

\* index.ntotal
ntotal(ix) == Len(ix.xb)

\* squared Euclidean distance
L2(a, b) == (a - b) * (a - b)

\* Position (1-based) of the nearest stored vector not in `taken`;
\* equal distances are reported in storage order.
NearestPos(xb, qv, taken) ==
    CHOOSE i \in (1..Len(xb)) \ taken :
        \A j \in (1..Len(xb)) \ taken :
            \/ L2(xb[i], qv) < L2(xb[j], qv)
            \/ L2(xb[i], qv) = L2(xb[j], qv) /\ i <= j

RECURSIVE FaissSearchFrom(_, _, _, _)
FaissSearchFrom(xb, qv, k, taken) ==
    IF k = 0 THEN <<>>
    ELSE IF Cardinality(taken) = Len(xb)
         THEN <<[idx |-> -1, distance |-> FLT_MAX]>>
                  \o FaissSearchFrom(xb, qv, k - 1, taken)
         ELSE LET i == NearestPos(xb, qv, taken)
              IN  <<[idx |-> i - 1, distance |-> L2(xb[i], qv)]>>
                      \o FaissSearchFrom(xb, qv, k - 1, taken \cup {i})

\* index.search(query_embedding, k): k (label, distance) pairs, nearest
\* first, labels 0-based, missing neighbours padded with (-1, FLT_MAX).
FaissSearch(ix, qv, k) == FaissSearchFrom(ix.xb, qv, k, {})

\* What index.search does with k itself.  The python wrapper of some faiss
\* builds starts with `assert k > 0` (k_checked); the others allocate the
\* (1, k) result arrays at once, which numpy refuses for k < 0 and leaves
\* empty for k = 0.
FaissSearchStatus(k, k_checked) ==
    IF k > 0 THEN "ok"
    ELSE IF k_checked THEN "AssertionError"
    ELSE IF k < 0 THEN "ValueError: negative dimensions are not allowed"
    ELSE "ok"

\* faiss.write_index / faiss.read_index
NoFile == [exists |-> FALSE]
write_index(ix) == [exists |-> TRUE, ntotal |-> ntotal(ix), codes |-> ix.xb]
read_index(f) == [none |-> FALSE, xb |-> SubSeq(f.codes, 1, f.ntotal)]

\* pickle.dump / pickle.load; a file opened 'wb' whose dump did not
\* complete is left truncated.
Truncated == [exists |-> TRUE, complete |-> FALSE]
pickle_dump(obj) == [exists |-> TRUE, complete |-> TRUE, obj |-> obj]
pickle_load(f) == f.obj

-----------------------------------------------------------------------------
(* EmbeddingService *)

\* Python list indexing, 0-based, negative positions counted from the end.
PyInRange(seq, i) == -Len(seq) <= i /\ i < Len(seq)
PyIndex(seq, i) == IF i >= 0 THEN seq[i + 1] ELSE seq[Len(seq) + i + 1]

\* float(1 / (1 + distance)) kept as an exact fraction
Score(distance) == [num |-> 1, den |-> 1 + distance]

\* transaction.copy() with similarity_score and distance set
Result(t, distance) ==
    [key \in DOMAIN t \cup {"similarity_score", "distance"} |->
        IF key = "similarity_score" THEN Score(distance)
        ELSE IF key = "distance" THEN distance
        ELSE t[key]]

RECURSIVE PrepareResults(_, _)
\* the loop of EmbeddingService.search over zip(indices[0], distances[0])
PrepareResults(txs, hits) ==
    IF hits = <<>> THEN [status |-> "ok", res |-> <<>>]
    ELSE LET h == Head(hits) IN
         IF h.idx < Len(txs)
         THEN IF ~PyInRange(txs, h.idx)
              THEN [status |-> "IndexError", res |-> <<>>]
              ELSE LET rest == PrepareResults(txs, Tail(hits)) IN
                   IF rest.status # "ok" THEN rest
                   ELSE [status |-> "ok",
                         res |-> <<Result(PyIndex(txs, h.idx), h.distance)>>
                                     \o rest.res]
         ELSE PrepareResults(txs, Tail(hits))

\* EmbeddingSearch whose guard also rejects an empty metadata list
EmbeddingSearch_GuardOnTransactions(ix, txs, query, top_k, k_checked) ==
    IF ix = None \/ txs = <<>>
    THEN [status |-> "ValueError: Index not built", res |-> <<>>]
    ELSE IF FaissSearchStatus(top_k, k_checked) # "ok"
    THEN [status |-> FaissSearchStatus(top_k, k_checked), res |-> <<>>]
    ELSE PrepareResults(txs, FaissSearch(ix, Encode(query), top_k))

\* EmbeddingService.search(query, top_k) on an instance (ix, txs), with a
\* faiss build that checks k or not
EmbeddingSearch(ix, txs, query, top_k, k_checked) ==
    IF ix = None
    THEN [status |-> "ValueError: Index not built", res |-> <<>>]
    ELSE IF FaissSearchStatus(top_k, k_checked) # "ok"
    THEN [status |-> FaissSearchStatus(top_k, k_checked), res |-> <<>>]
    ELSE PrepareResults(txs, FaissSearch(ix, Encode(query), top_k))

-----------------------------------------------------------------------------
(* VectorSearchService *)

\* `if user_id and ...`: an Optional[str] is tested for truthiness
Truthy(opt) == IsSet(opt) /\ ValueOf(opt) # ""

\* Passes without the upper amount bound
Passes_NoMaxAmount(r, user_id, category, min_amount, max_amount) ==
    /\ ~(IsSet(user_id) /\ ValueOf(user_id) # "" /\ r.user_id # ValueOf(user_id))
    /\ ~(IsSet(category) /\ ValueOf(category) # "" /\ r.category # ValueOf(category))
    /\ ~(IsSet(min_amount) /\ r.amount < ValueOf(min_amount))

\* the filter conjunction of VectorSearchService.search on one result
Passes(r, user_id, category, min_amount, max_amount) ==
    /\ ~(Truthy(user_id) /\ r.user_id # ValueOf(user_id))
    /\ ~(Truthy(category) /\ r.category # ValueOf(category))
    /\ ~(IsSet(min_amount) /\ r.amount < ValueOf(min_amount))
    /\ ~(IsSet(max_amount) /\ r.amount > ValueOf(max_amount))

\* FilterLoop without the break: every survivor of the 2 * top_k candidates
FilterLoop_NoBreak(results, filtered, top_k, user_id, category, min_amount, max_amount) ==
    filtered \o SelectSeq(results,
                 LAMBDA r : Passes(r, user_id, category, min_amount, max_amount))

RECURSIVE FilterLoop(_, _, _, _, _, _, _)
\* the filtering loop: append survivors, break once top_k are collected
FilterLoop(results, filtered, top_k, user_id, category, min_amount, max_amount) ==
    IF results = <<>> THEN filtered
    ELSE LET r == Head(results) IN
         IF Passes(r, user_id, category, min_amount, max_amount)
         THEN LET acc == Append(filtered, r) IN
              IF Len(acc) >= top_k THEN acc
              ELSE FilterLoop(Tail(results), acc, top_k,
                              user_id, category, min_amount, max_amount)
         ELSE FilterLoop(Tail(results), filtered, top_k,
                         user_id, category, min_amount, max_amount)

\* VectorSearch without the readiness guard
VectorSearch_NoReadyGuard(ready, ix, txs, a, k_checked) ==
    LET found == EmbeddingSearch(ix, txs, a.query, a.top_k * 2, k_checked) IN
    IF found.status # "ok" THEN found
    ELSE [status |-> "ok",
          res |-> FilterLoop(found.res, <<>>, a.top_k, a.user_id,
                             a.category, a.min_amount, a.max_amount)]

\* VectorSearchService.search on an instance (ready, ix, txs)
VectorSearch(ready, ix, txs, a, k_checked) ==
    IF ~ready
    THEN [status |-> "RuntimeError: Search service not initialized", res |-> <<>>]
    ELSE LET found == EmbeddingSearch(ix, txs, a.query, a.top_k * 2, k_checked) IN
         IF found.status # "ok" THEN found
         ELSE [status |-> "ok",
               res |-> FilterLoop(found.res, <<>>, a.top_k, a.user_id,
                                  a.category, a.min_amount, a.max_amount)]

-----------------------------------------------------------------------------
(* The searches statement by statement, for callers that run side by side *)

\* A result dict as the call holds it: a dict of its own, or the stored
\* dict at a position of self.transactions.
IsOwn(obj) == "own" \in DOMAIN obj

\* position (1-based) of self.transactions[idx]
PyPos(seq, idx) == IF idx >= 0 THEN idx + 1 ELSE Len(seq) + idx + 1

\* CopyOf without the copy: `result = self.transactions[idx]`
CopyOf_Alias(txs, idx) == [stored |-> PyPos(txs, idx)]

\* `result = self.transactions[idx].copy()`
CopyOf(txs, idx) == [own |-> PyIndex(txs, idx)]

\* result['similarity_score'] = ...; result['distance'] = ...: the two
\* items are written into the dict that `result` refers to
ScoreWritten(txs, obj, distance) ==
    IF IsOwn(obj)
    THEN [transactions |-> txs, result |-> [own |-> Result(obj.own, distance)]]
    ELSE [transactions |-> [txs EXCEPT ![obj.stored] = Result(@, distance)],
          result |-> obj]

\* the dict a caller reads through a result
Seen(txs, obj) == IF IsOwn(obj) THEN obj.own ELSE txs[obj.stored]
SeenAll(txs, results) == [i \in 1..Len(results) |-> Seen(txs, results[i])]

RECURSIVE FilterResults(_, _, _, _)
\* the filtering loop of VectorSearchService.search over the result dicts
\* of one call
FilterResults(txs, results, filtered, a) ==
    IF results = <<>> THEN filtered
    ELSE IF Passes(Seen(txs, Head(results)), a.user_id, a.category,
                   a.min_amount, a.max_amount)
    THEN LET acc == Append(filtered, Head(results)) IN
         IF Len(acc) >= a.top_k THEN acc
         ELSE FilterResults(txs, Tail(results), acc, a)
    ELSE FilterResults(txs, Tail(results), filtered, a)

\* a call that has ended: returned `results` or raised `status`
Done(call, status, results) ==
    [pc |-> "done", kind |-> call.kind, args |-> call.args,
     status |-> status, results |-> results]

\* number of neighbours a call asks the index for
RequestedK(call) ==
    IF call.kind = "vs" THEN call.args.top_k * 2 ELSE call.args.top_k

-----------------------------------------------------------------------------
(* TransactionSummarizer *)

\* Amounts are whole hundredths of a currency unit, so that round(x, 2)
\* of a sum of amounts is the sum itself.  A numeric amount is [num |-> n];
\* a value that is not a number (a string such as "12.50") is [str |-> s].
Num(n) == [num |-> n]
IsNumber(a) == "num" \in DOMAIN a

\* dict.get(key, default)
Get(txn, key, default) == IF key \in DOMAIN txn THEN txn[key] ELSE default

\* round(n / d, 2) for d > 0, n and the result in hundredths: the nearest
\* hundredth, a tie going to the even one
RoundDiv(n, d) ==
    LET q == n \div d
        r == n % d
    IN  IF 2 * r < d THEN q
        ELSE IF 2 * r > d THEN q + 1
        ELSE IF q % 2 = 0 THEN q ELSE q + 1

Digits == {"0", "1", "2", "3", "4", "5", "6", "7", "8", "9"}
IsDigits(str) == \A i \in 1..Len(str) : SubSeq(str, i, i) \in Digits

\* datetime.fromisoformat(ts).strftime('%Y-%m'): the month key of a
\* timestamp "YYYY-MM-DD" or "YYYY-MM-DDTHH:MM:SS", Unset when
\* fromisoformat raises ValueError
MonthKey(ts) ==
    IF /\ Len(ts) \in {10, 19}
       /\ IsDigits(SubSeq(ts, 1, 4)) /\ SubSeq(ts, 5, 5) = "-"
       /\ SubSeq(ts, 6, 7) \in {"01", "02", "03", "04", "05", "06",
                                "07", "08", "09", "10", "11", "12"}
       /\ SubSeq(ts, 8, 8) = "-" /\ IsDigits(SubSeq(ts, 9, 10))
       /\ SubSeq(ts, 9, 10) # "00"
       /\ Len(ts) = 19 => SubSeq(ts, 11, 11) = "T"
    THEN {SubSeq(ts, 1, 7)}
    ELSE Unset

\* A defaultdict is a sequence of entries [key, ...] in the order in which
\* the keys were first used (dicts keep insertion order).
KeyPos(stats, key) ==
    IF \E i \in 1..Len(stats) : stats[i].key = key
    THEN CHOOSE i \in 1..Len(stats) : stats[i].key = key
    ELSE 0

\* stats[key] of a defaultdict: the entry is created from `fresh`, at the
\* end, when the key is new
Touch(stats, key, fresh) ==
    IF KeyPos(stats, key) = 0 THEN Append(stats, fresh) ELSE stats

\* EmptyStats that hands a new call the tables of a call in progress, as
\* tables kept on the class would
EmptyStats_Shared ==
    IF \E c \in Callers : calls[c].pc = "sum"
    THEN calls[CHOOSE c \in Callers : calls[c].pc = "sum"].acc
    ELSE [category_stats |-> <<>>, user_stats |-> <<>>,
          payment_method_stats |-> <<>>, monthly_stats |-> <<>>,
          total_debit |-> 0, total_credit |-> 0]

\* the local tables before the loop
EmptyStats ==
    [category_stats |-> <<>>, user_stats |-> <<>>,
     payment_method_stats |-> <<>>, monthly_stats |-> <<>>,
     total_debit |-> 0, total_credit |-> 0]

\* `if txn_type == 'debit': ... else: ...`: what one amount adds to the
\* debit side and to the credit side
DebitPart(txn_type, amount) == IF txn_type = "debit" THEN amount ELSE 0

\* CreditPart that takes only the type "credit" for a credit
CreditPart_CreditOnly(txn_type, amount) ==
    IF txn_type = "credit" THEN amount ELSE 0

CreditPart(txn_type, amount) == IF txn_type = "debit" THEN 0 ELSE amount

\* one pass of `for txn in transactions` with a numeric amount
Accumulate(acc, txn) ==
    LET amount         == Get(txn, "amount", Num(0)).num
        category       == Get(txn, "category", "Unknown")
        user_id        == Get(txn, "user_id", "Unknown")
        txn_type       == Get(txn, "type", "debit")
        payment_method == Get(txn, "payment_method", "Unknown")
        month          == MonthKey(Get(txn, "timestamp", ""))
        CatUp(e)  == [e EXCEPT !.count = @ + 1, !.total = @ + amount]
        UserUp(e) == [e EXCEPT !.count = @ + 1,
                               !.debit = @ + DebitPart(txn_type, amount),
                               !.credit = @ + CreditPart(txn_type, amount)]
        PayUp(e)  == [e EXCEPT !.count = @ + 1]
        MonthUp(e) == [e EXCEPT !.count = @ + 1,
                                !.debit = @ + DebitPart(txn_type, amount),
                                !.credit = @ + CreditPart(txn_type, amount)]
        categories == Touch(acc.category_stats, category,
                            [key |-> category, count |-> 0, total |-> 0])
        users      == Touch(acc.user_stats, user_id,
                            [key |-> user_id, count |-> 0, debit |-> 0,
                             credit |-> 0])
        payments   == Touch(acc.payment_method_stats, payment_method,
                            [key |-> payment_method, count |-> 0])
        months     == Touch(acc.monthly_stats, ValueOf(month),
                            [key |-> ValueOf(month), debit |-> 0,
                             credit |-> 0, count |-> 0])
    IN  [category_stats |->
             [categories EXCEPT ![KeyPos(categories, category)] = CatUp(@)],
         user_stats |->
             [users EXCEPT ![KeyPos(users, user_id)] = UserUp(@)],
         payment_method_stats |->
             [payments EXCEPT ![KeyPos(payments, payment_method)] = PayUp(@)],
         monthly_stats |->
             IF month = Unset THEN acc.monthly_stats
             ELSE [months EXCEPT ![KeyPos(months, ValueOf(month))] = MonthUp(@)],
         total_debit |-> acc.total_debit + DebitPart(txn_type, amount),
         total_credit |-> acc.total_credit + CreditPart(txn_type, amount)]

RECURSIVE AccumulateAll_SkipBadTimestamp(_, _)
\* AccumulateAll that leaves out a record whose timestamp does not parse
AccumulateAll_SkipBadTimestamp(acc, txns) ==
    IF txns = <<>> THEN [status |-> "ok", acc |-> acc]
    ELSE IF ~IsNumber(Get(Head(txns), "amount", Num(0)))
    THEN [status |-> "TypeError", acc |-> acc]
    ELSE IF MonthKey(Get(Head(txns), "timestamp", "")) = Unset
    THEN AccumulateAll_SkipBadTimestamp(acc, Tail(txns))
    ELSE AccumulateAll_SkipBadTimestamp(Accumulate(acc, Head(txns)), Tail(txns))

RECURSIVE AccumulateAll(_, _)
\* the whole loop; `total += amount` raises TypeError when the amount is
\* not a number
AccumulateAll(acc, txns) ==
    IF txns = <<>> THEN [status |-> "ok", acc |-> acc]
    ELSE IF ~IsNumber(Get(Head(txns), "amount", Num(0)))
    THEN [status |-> "TypeError", acc |-> acc]
    ELSE AccumulateAll(Accumulate(acc, Head(txns)), Tail(txns))

\* the slice [:5] of the sorted categories
TopN == 5

RECURSIVE InsertDesc_Unstable(_, _)
\* InsertDesc that puts e in front of the entries with an equal total
InsertDesc_Unstable(sorted, e) ==
    IF sorted = <<>> THEN <<e>>
    ELSE IF Head(sorted).total > e.total
    THEN <<Head(sorted)>> \o InsertDesc_Unstable(Tail(sorted), e)
    ELSE <<e>> \o sorted

RECURSIVE InsertDesc(_, _)
\* put e into a list that is in non-increasing order of total, behind the
\* entries whose total is not smaller
InsertDesc(sorted, e) ==
    IF sorted = <<>> THEN <<e>>
    ELSE IF Head(sorted).total >= e.total
    THEN <<Head(sorted)>> \o InsertDesc(Tail(sorted), e)
    ELSE <<e>> \o sorted

RECURSIVE SortedDesc(_)
\* sorted(items, key=total, reverse=True): equal totals keep their order
SortedDesc(stats) ==
    IF stats = <<>> THEN <<>>
    ELSE InsertDesc(SortedDesc(SubSeq(stats, 1, Len(stats) - 1)),
                    stats[Len(stats)])

RECURSIVE MaxByTotal_Last(_, _)
\* MaxByTotal that keeps the last of the largest
MaxByTotal_Last(pairs, best) ==
    IF pairs = <<>> THEN best
    ELSE MaxByTotal_Last(Tail(pairs),
                         IF Head(pairs).total >= best.total THEN Head(pairs)
                         ELSE best)

RECURSIVE MaxByTotal(_, _)
\* max(pairs, key=total, default=best): the first of the largest
MaxByTotal(pairs, best) ==
    IF pairs = <<>> THEN best
    ELSE MaxByTotal(Tail(pairs),
                    IF Head(pairs).total > best.total THEN Head(pairs) ELSE best)

\* max([... if cat != 'Income'], key=..., default=('None', 0))
TopSpending(category_stats) ==
    LET spending == SelectSeq(category_stats, LAMBDA e : e.key # "Income")
    IN  IF spending = <<>> THEN [key |-> "None", total |-> 0]
        ELSE MaxByTotal(Tail(spending), Head(spending))

\* SavingsRate cut off after the second decimal instead of rounded
SavingsRate_Truncated(total_debit, total_credit) ==
    IF total_credit > 0
    THEN ((total_credit - total_debit) * 100 * 100) \div total_credit
    ELSE 0

\* round((total_credit - total_debit) / total_credit * 100, 2) if
\* total_credit > 0 else 0, in hundredths of a percent
SavingsRate(total_debit, total_credit) ==
    IF total_credit > 0
    THEN RoundDiv((total_credit - total_debit) * 100 * 100, total_credit)
    ELSE 0

\* the summary dictionary built from the tables
Report(acc, total_count) ==
    LET top == TopSpending(acc.category_stats)
        sorted == SortedDesc(acc.category_stats)
        top_categories == SubSeq(sorted, 1, IF Len(sorted) < TopN
                                            THEN Len(sorted) ELSE TopN)
    IN
    [overview |->
         [total_transactions |-> total_count,
          total_debit |-> acc.total_debit,
          total_credit |-> acc.total_credit,
          net_balance |-> acc.total_credit - acc.total_debit,
          average_transaction |->
              RoundDiv(acc.total_debit + acc.total_credit, total_count)],
     by_category |->
         [i \in 1..Len(acc.category_stats) |->
             LET e == acc.category_stats[i] IN
             [category |-> e.key, count |-> e.count, total_amount |-> e.total,
              average_amount |-> RoundDiv(e.total, e.count)]],
     top_categories |->
         [i \in 1..Len(top_categories) |->
             LET e == top_categories[i] IN
             [category |-> e.key, total_amount |-> e.total,
              transaction_count |-> e.count]],
     by_user |->
         [i \in 1..Len(acc.user_stats) |->
             LET e == acc.user_stats[i] IN
             [user |-> e.key, transaction_count |-> e.count,
              total_debit |-> e.debit, total_credit |-> e.credit,
              net_balance |-> e.credit - e.debit]],
     by_payment_method |->
         [i \in 1..Len(acc.payment_method_stats) |->
             LET e == acc.payment_method_stats[i] IN
             [payment_method |-> e.key, count |-> e.count]],
     insights |->
         [top_spending_category |-> top.key,
          top_spending_amount |-> top.total,
          savings_rate |-> SavingsRate(acc.total_debit, acc.total_credit)]]

NoReport == [message |-> "No transactions to summarize"]

\* SummarizeTransactions without the test for an empty list: the average
\* of the overview divides by len(transactions)
SummarizeTransactions_NoEmptyGuard(txns) ==
    IF txns = <<>> THEN [status |-> "ZeroDivisionError", res |-> <<>>]
    ELSE LET loop == AccumulateAll(EmptyStats, txns) IN
         IF loop.status # "ok" THEN [status |-> loop.status, res |-> <<>>]
         ELSE [status |-> "ok", res |-> Report(loop.acc, Len(txns))]

\* TransactionSummarizer.summarize_transactions(transactions): the report,
\* or the exception the call ends in
SummarizeTransactions(txns) ==
    IF txns = <<>> THEN [status |-> "ok", res |-> NoReport]
    ELSE LET loop == AccumulateAll(EmptyStats, txns) IN
         IF loop.status # "ok" THEN [status |-> loop.status, res |-> <<>>]
         ELSE [status |-> "ok", res |-> Report(loop.acc, Len(txns))]

\* how many of the top categories the text lists
TextTopN == 3

\* TransactionSummarizer.generate_text_summary(transactions): the message
\* of the sentinel report, or else the text, kept as the values it prints
\* in the order it prints them
GenerateTextSummary(txns) ==
    LET summary == SummarizeTransactions(txns) IN
    IF summary.status # "ok" THEN summary
    ELSE IF "message" \in DOMAIN summary.res
    THEN [status |-> "ok", res |-> summary.res.message]
    ELSE LET overview == summary.res.overview
             insights == summary.res.insights
             top == summary.res.top_categories
         IN  [status |-> "ok",
              res |-> [title |-> "Financial Summary",
                       overview |-> <<overview.total_transactions,
                                      overview.total_debit,
                                      overview.total_credit,
                                      overview.net_balance,
                                      overview.average_transaction>>,
                       top_categories |->
                           SubSeq(top, 1, IF Len(top) < TextTopN
                                          THEN Len(top) ELSE TextTopN),
                       insights |-> <<insights.top_spending_category,
                                      insights.top_spending_amount,
                                      insights.savings_rate>>]]

-----------------------------------------------------------------------------
(* VectorSearchService: listings and statistics over the stored list *)

\* the characters of the timestamps and user ids at hand, in code-point order
Alphabet == " -/0123456789:ABCDEFGHIJKLMNOPQRSTUVWXYZ"

\* position of a one-character string in code-point order
Ord(ch) == CHOOSE i \in 1..Len(Alphabet) : SubSeq(Alphabet, i, i) = ch

RECURSIVE StrLess(_, _)
\* a < b for str: the first differing character decides, a proper prefix
\* is smaller
StrLess(a, b) ==
    IF b = "" THEN FALSE
    ELSE IF a = "" THEN TRUE
    ELSE IF SubSeq(a, 1, 1) = SubSeq(b, 1, 1)
    THEN StrLess(SubSeq(a, 2, Len(a)), SubSeq(b, 2, Len(b)))
    ELSE Ord(SubSeq(a, 1, 1)) < Ord(SubSeq(b, 1, 1))

\* key=lambda x: x.get('timestamp', '')
TimestampKey(t) == Get(t, "timestamp", "")

RECURSIVE InsertNewest_Ascending(_, _)
\* InsertNewest that keeps the list in ascending order of the key
InsertNewest_Ascending(sorted, t) ==
    IF sorted = <<>> THEN <<t>>
    ELSE IF ~StrLess(TimestampKey(t), TimestampKey(Head(sorted)))
    THEN <<Head(sorted)>> \o InsertNewest_Ascending(Tail(sorted), t)
    ELSE <<t>> \o sorted

RECURSIVE InsertNewest(_, _)
\* put t into a list that is in non-increasing order of the key, behind the
\* records whose key is not smaller
InsertNewest(sorted, t) ==
    IF sorted = <<>> THEN <<t>>
    ELSE IF ~StrLess(TimestampKey(Head(sorted)), TimestampKey(t))
    THEN <<Head(sorted)>> \o InsertNewest(Tail(sorted), t)
    ELSE <<t>> \o sorted

RECURSIVE SortNewestFirst(_)
\* list.sort(key=timestamp, reverse=True): equal keys keep their order
SortNewestFirst(txs) ==
    IF txs = <<>> THEN <<>>
    ELSE InsertNewest(SortNewestFirst(SubSeq(txs, 1, Len(txs) - 1)),
                      txs[Len(txs)])

RECURSIVE WithKey_Any(_, _, _)
\* WithKey that also lets the records without the key through
WithKey_Any(txs, key, value) ==
    IF txs = <<>> THEN <<>>
    ELSE (IF key \in DOMAIN Head(txs) => Head(txs)[key] = value
          THEN <<Head(txs)>> ELSE <<>>)
         \o WithKey_Any(Tail(txs), key, value)

RECURSIVE WithKey(_, _, _)
\* [t for t in transactions if t.get(key) == value], value a string
WithKey(txs, key, value) ==
    IF txs = <<>> THEN <<>>
    ELSE (IF key \in DOMAIN Head(txs) /\ Head(txs)[key] = value
          THEN <<Head(txs)>> ELSE <<>>)
         \o WithKey(Tail(txs), key, value)

\* PySlice that ignores the limit
PySlice_All(seq, limit) == seq

\* seq[:limit]
PySlice(seq, limit) ==
    IF limit >= 0
    THEN SubSeq(seq, 1, IF limit < Len(seq) THEN limit ELSE Len(seq))
    ELSE SubSeq(seq, 1, IF Len(seq) + limit > 0 THEN Len(seq) + limit ELSE 0)

\* Listing that sorts the stored list itself before it selects from it
Listing_InPlace(ready, txs, key, value, limit) ==
    IF ~ready
    THEN [status |-> "RuntimeError: Search service not initialized",
          res |-> <<>>, stored |-> txs]
    ELSE [status |-> "ok",
          res |-> PySlice(WithKey(SortNewestFirst(txs), key, value), limit),
          stored |-> SortNewestFirst(txs)]

\* get_user_transactions (key "user_id") and get_category_transactions
\* (key "category"), which differ in the key only: the selection is a new
\* list, and it is that list which is sorted; `stored` is the list the
\* service holds afterwards
Listing(ready, txs, key, value, limit) ==
    IF ~ready
    THEN [status |-> "RuntimeError: Search service not initialized",
          res |-> <<>>, stored |-> txs]
    ELSE [status |-> "ok",
          res |-> PySlice(SortNewestFirst(WithKey(txs, key, value)), limit),
          stored |-> txs]

RECURSIVE SortedStrings(_)
\* sorted(list(users))
SortedStrings(set) ==
    IF set = {} THEN <<>>
    ELSE LET least == CHOOSE x \in set : \A y \in set : ~StrLess(y, x)
         IN  <<least>> \o SortedStrings(set \ {least})

\* the elif of the statistics loop taken as a bare else
CreditShare_Else(t) ==
    IF Get(t, "type", "") # "debit" THEN Get(t, "amount", Num(0)).num ELSE 0

\* what one record adds to debit_amount and to credit_amount
DebitShare(t) ==
    IF Get(t, "type", "") = "debit" THEN Get(t, "amount", Num(0)).num ELSE 0
CreditShare(t) ==
    IF Get(t, "type", "") = "credit" THEN Get(t, "amount", Num(0)).num ELSE 0

RECURSIVE StatsLoop(_, _)
\* the loop of get_transaction_stats over the records that are left
StatsLoop(acc, txs) ==
    IF txs = <<>> THEN acc
    ELSE LET t == Head(txs)
             cat == Get(t, "category", "Unknown")
             counted == Touch(acc.categories, cat, [key |-> cat, count |-> 0])
         IN  StatsLoop(
                 [categories |-> [counted EXCEPT ![KeyPos(counted, cat)].count
                                      = @ + 1],
                  total_amount |-> acc.total_amount
                                       + Get(t, "amount", Num(0)).num,
                  debit_amount |-> acc.debit_amount + DebitShare(t),
                  credit_amount |-> acc.credit_amount + CreditShare(t)],
                 Tail(txs))

\* VectorSearchService.get_transaction_stats()
GetTransactionStats(ready, txs) ==
    IF ~ready
    THEN [status |-> "ok", res |-> [error |-> "Service not initialized"]]
    ELSE IF \E i \in 1..Len(txs) : "user_id" \notin DOMAIN txs[i]
    THEN [status |-> "KeyError: 'user_id'", res |-> <<>>]
    ELSE IF \E i \in 1..Len(txs) : ~IsNumber(Get(txs[i], "amount", Num(0)))
    THEN [status |-> "TypeError", res |-> <<>>]
    ELSE LET users == {txs[i].user_id : i \in 1..Len(txs)}
             acc == StatsLoop([categories |-> <<>>, total_amount |-> 0,
                               debit_amount |-> 0, credit_amount |-> 0], txs)
         IN  [status |-> "ok",
              res |-> [total_transactions |-> Len(txs),
                       total_users |-> Cardinality(users),
                       users |-> SortedStrings(users),
                       categories |-> acc.categories,
                       total_amount |-> acc.total_amount,
                       total_debit |-> acc.debit_amount,
                       total_credit |-> acc.credit_amount,
                       net_balance |-> acc.credit_amount - acc.debit_amount]]

-----------------------------------------------------------------------------
(* Inputs *)

BuildInputs == TxLists(MaxTx)

\* top_k of VectorSearchService.search; EmbeddingService.search is then
\* called with up to twice as much
TopKs == 1..MaxK
EmbeddingKs == 1..(2 * MaxK)

UserFilters == {Unset, {""}, {"USER001"}}
CategoryFilters == {Unset, {""}, {"Food & Dining"}}
MinAmountFilters == {Unset, {2}}
MaxAmountFilters == {Unset, {1}}

\* Filter combinations tried: the text filters alone, the amount bounds
\* alone (min_amount 2 with max_amount 1 is an empty range), and all four
\* together around the most selective text filters.
SearchFilters ==
    {f \in [user_id : UserFilters, category : CategoryFilters,
            min_amount : MinAmountFilters, max_amount : MaxAmountFilters] :
        \/ f.min_amount = Unset /\ f.max_amount = Unset
        \/ f.user_id = Unset /\ f.category = Unset
        \/ f.user_id = {"USER001"} /\ f.category = {"Food & Dining"}}

SearchArgs ==
    {[query |-> q, top_k |-> k, user_id |-> f.user_id,
      category |-> f.category, min_amount |-> f.min_amount,
      max_amount |-> f.max_amount] :
        q \in SearchQueries, k \in TopKs, f \in SearchFilters}

\* searches without any filter
UnfilteredArgs ==
    {[query |-> q, top_k |-> k, user_id |-> Unset, category |-> Unset,
      min_amount |-> Unset, max_amount |-> Unset] :
        q \in SearchQueries, k \in TopKs}

\* the filtered search that callers run side by side
ConcurrentArgs ==
    {[query |-> q, top_k |-> 1, user_id |-> Unset,
      category |-> {"Food & Dining"}, min_amount |-> Unset,
      max_amount |-> Unset] : q \in SearchQueries}

\* top_k values below the API's lower bound of 1, handed to
\* VectorSearchService.search directly, without filters
NonPositiveKs == {0, -1}
NonPositiveArgs ==
    {[query |-> q, top_k |-> k, user_id |-> Unset, category |-> Unset,
      min_amount |-> Unset, max_amount |-> Unset] :
        q \in SearchQueries, k \in NonPositiveKs}

\* the faiss builds that differ on k: with and without the check of k,
\* which only matters for k <= 0
FaissBuilds(k) == IF k > 0 THEN {TRUE} ELSE BOOLEAN

\* Records handed to the summarizer.  Besides well-formed ones (two
\* categories with equal totals, a credit outside "Income", a date without
\* a time) there are records with missing keys, a type that is neither
\* debit nor credit, a timestamp that is not ISO, an amount that is a
\* string and a negative amount.
SumTxn(category, user_id, type, amount, payment_method, timestamp) ==
    [category |-> category, user_id |-> user_id, type |-> type,
     amount |-> Num(amount), payment_method |-> payment_method,
     timestamp |-> timestamp]

SumUniverse ==
    {SumTxn("Food & Dining", "USER001", "debit", 100, "UPI", "2024-01-15T10:30:00"),
     SumTxn("Shopping", "USER001", "debit", 100, "Credit Card", "2024-01-20T18:05:00"),
     SumTxn("Income", "USER002", "credit", 300, "Net Banking", "2024-02-01T09:00:00"),
     SumTxn("Food & Dining", "USER002", "debit", 255, "UPI", "2024-02-10"),
     SumTxn("Shopping", "USER002", "credit", 100, "Credit Card", "2024-02-11T12:00:00"),
     [type |-> "debit", amount |-> Num(50), timestamp |-> "2024-01-31T23:59:59"],
     SumTxn("Shopping", "USER001", "transfer", 70, "UPI", "2024-01-05T08:00:00"),
     [category |-> "Food & Dining", user_id |-> "USER001", amount |-> Num(30),
      payment_method |-> "Cash", timestamp |-> "2024-01-06T08:00:00"],
     SumTxn("Food & Dining", "USER002", "debit", 45, "Cash", "15/01/2024 10:30"),
     [category |-> "Income", user_id |-> "USER001", type |-> "credit",
      payment_method |-> "Net Banking"],
     [category |-> "Food & Dining", user_id |-> "USER001", type |-> "debit",
      amount |-> [str |-> "12.50"], payment_method |-> "UPI",
      timestamp |-> "2024-01-07T08:00:00"],
     SumTxn("Shopping", "USER002", "debit", -100, "Credit Card", "2024-01-08T08:00:00")}

\* longest list of such records, and the number of distinct categories in
\* the lists that exceed the top-5 slice
MaxSum == 3
MaxCats == 6

RECURSIVE ListsUpTo(_, _)
ListsUpTo(universe, n) ==
    IF n = 0 THEN {<<>>}
    ELSE LET shorter == ListsUpTo(universe, n - 1) IN
         shorter \cup {Append(l, t) : l \in {x \in shorter : Len(x) = n - 1},
                                      t \in universe}

CategoryNames ==
    <<"Food & Dining", "Shopping", "Income", "Travel", "Bills & Utilities",
      "Entertainment", "Healthcare", "Education">>

\* one debit per category, each of 100 or 200: many equal totals and more
\* categories than the top-5 slice holds
CategoryRuns ==
    {[i \in 1..MaxCats |->
         SumTxn(CategoryNames[i], "USER001", "debit", amounts[i], "UPI",
                "2024-03-01T00:00:00")] :
        amounts \in [1..MaxCats -> {100, 200}]}

SummaryInputs == ListsUpTo(SumUniverse, MaxSum) \cup CategoryRuns

\* Records of a stored list that is listed and counted: the numeric,
\* non-negative ones of the records above
StoredUniverse ==
    {t \in SumUniverse :
        /\ IsNumber(Get(t, "amount", Num(0)))
        /\ Get(t, "amount", Num(0)).num >= 0
        /\ ~(Get(t, "category", "") = "Shopping"
                 /\ Get(t, "type", "") \in {"debit", "credit"})}

\* longest stored list that is listed, and the largest limit asked for
MaxStored == 3
MaxLimit == 3
StoredInputs == ListsUpTo(StoredUniverse, MaxStored)
Limits == 0..MaxLimit
UserIds == {"USER001", "USER999"}
Categories == {"Food & Dining", "Travel"}

\* longest list that several callers work on side by side
MaxShared == 2
ReentrantInputs == ListsUpTo(SumUniverse, MaxShared)

\* stored lists that every kind of query is run on, and the index that
\* load_index has read next to such a list: one vector per record
QueryStores == ListsUpTo(StoredUniverse, MaxShared)
LoadedIndex(txs) == IndexAdd(IndexFlatL2, [i \in 1..Len(txs) |-> 100 * i])

\* where save_index can stop: nowhere, at open(transactions_path, 'wb'),
\* or inside pickle.dump after the file was opened (and truncated)
SaveFaults == {"none", "open", "dump"}

\* no search in progress
Idle == [pc |-> "idle"]
NoCalls == [c \in Callers |-> Idle]

NoArgs == [none |-> TRUE]
Outcome(op, args, status, res) ==
    [op |-> op, args |-> args, status |-> status, res |-> res]

-----------------------------------------------------------------------------
(* State machine *)

Init ==
    /\ index = None
    /\ transactions = <<>>
    /\ is_ready = FALSE
    /\ idxFile = NoFile
    /\ txFile = NoFile
    /\ out = Outcome("__init__", NoArgs, "ok", <<>>)
    /\ calls = NoCalls

\* VectorSearchService.__init__ / EmbeddingService.__init__: a fresh instance
NewService ==
    /\ index' = None
    /\ transactions' = <<>>
    /\ is_ready' = FALSE
    /\ out' = Outcome("__init__", NoArgs, "ok", <<>>)
    /\ UNCHANGED <<idxFile, txFile, calls>>

\* what index.add raises on the array of shape (0,) that encoding an empty
\* list gives: faiss unpacks `n, d = x.shape`
UnpackError == "ValueError: not enough values to unpack (expected 2, got 1)"

\* EmbeddingService.build_index(transactions).  encode_ok = FALSE: the
\* embedding step (text construction or model.encode) raises.
\* An empty list passes the embedding step, a fresh index is assigned and
\* index.add then rejects the shapeless array.
build_index(txs, encode_ok) ==
    /\ transactions' = txs
    /\ IF ~encode_ok
       THEN /\ index' = index
            /\ out' = Outcome("build_index", [transactions |-> txs],
                              "Exception: embedding failed", <<>>)
       ELSE IF txs = <<>>
       THEN /\ index' = IndexFlatL2
            /\ out' = Outcome("build_index", [transactions |-> txs],
                              UnpackError, <<>>)
       ELSE /\ index' = IndexAdd(IndexFlatL2, create_embeddings(txs))
            /\ out' = Outcome("build_index", [transactions |-> txs], "ok", <<>>)
    /\ UNCHANGED <<is_ready, idxFile, txFile, calls>>

\* Files left by save_index on an instance (ix, txs) over files (fIdx, fTx)
SaveOutcome(ix, txs, fIdx, fTx, fault) ==
    IF ix = None
    THEN [idxFile |-> fIdx, txFile |-> fTx, status |-> "TypeError"]
    ELSE IF fault = "open"
    THEN [idxFile |-> write_index(ix), txFile |-> fTx, status |-> "OSError"]
    ELSE IF fault = "dump"
    THEN [idxFile |-> write_index(ix), txFile |-> Truncated,
          status |-> "PicklingError"]
    ELSE [idxFile |-> write_index(ix), txFile |-> pickle_dump(txs),
          status |-> "ok"]

\* EmbeddingService.save_index(index_path, transactions_path)
save_index(fault) ==
    LET o == SaveOutcome(index, transactions, idxFile, txFile, fault) IN
    /\ idxFile' = o.idxFile
    /\ txFile' = o.txFile
    /\ out' = Outcome("save_index", NoArgs, o.status, <<>>)
    /\ UNCHANGED <<index, transactions, is_ready, calls>>

\* LoadOutcome that reads the index file only and keeps the metadata list
LoadOutcome_IndexOnly(ix, txs, fIdx, fTx) ==
    IF ~fIdx.exists
    THEN [index |-> ix, transactions |-> txs, status |-> "FileNotFoundError"]
    ELSE IF ~fTx.exists
    THEN [index |-> read_index(fIdx), transactions |-> txs,
          status |-> "FileNotFoundError"]
    ELSE IF ~fTx.complete
    THEN [index |-> read_index(fIdx), transactions |-> txs,
          status |-> "EOFError"]
    ELSE [index |-> read_index(fIdx), transactions |-> txs, status |-> "ok"]

\* Instance left by load_index on (ix, txs) from files (fIdx, fTx)
LoadOutcome(ix, txs, fIdx, fTx) ==
    IF ~fIdx.exists
    THEN [index |-> ix, transactions |-> txs, status |-> "FileNotFoundError"]
    ELSE IF ~fTx.exists
    THEN [index |-> read_index(fIdx), transactions |-> txs,
          status |-> "FileNotFoundError"]
    ELSE IF ~fTx.complete
    THEN [index |-> read_index(fIdx), transactions |-> txs,
          status |-> "EOFError"]
    ELSE [index |-> read_index(fIdx), transactions |-> pickle_load(fTx),
          status |-> "ok"]

\* EmbeddingService.load_index(index_path, transactions_path)
load_index ==
    LET o == LoadOutcome(index, transactions, idxFile, txFile) IN
    /\ index' = o.index
    /\ transactions' = o.transactions
    /\ out' = Outcome("load_index", NoArgs, o.status, <<>>)
    /\ UNCHANGED <<is_ready, idxFile, txFile, calls>>

\* initialize that leaves is_ready as it was when load_index raises
initialize_KeepsReady ==
    LET o == LoadOutcome(index, transactions, idxFile, txFile) IN
    /\ index' = o.index
    /\ transactions' = o.transactions
    /\ is_ready' = (o.status = "ok" \/ is_ready)
    /\ out' = Outcome("initialize", NoArgs, "ok", <<o.status = "ok">>)
    /\ UNCHANGED <<idxFile, txFile, calls>>

\* VectorSearchService.initialize(index_path, transactions_path)
initialize ==
    LET o == LoadOutcome(index, transactions, idxFile, txFile) IN
    /\ index' = o.index
    /\ transactions' = o.transactions
    /\ is_ready' = (o.status = "ok")
    /\ out' = Outcome("initialize", NoArgs, "ok", <<o.status = "ok">>)
    /\ UNCHANGED <<idxFile, txFile, calls>>

\* EmbeddingService.search(query, top_k)
EmbeddingService_search(query, top_k) ==
    LET o == EmbeddingSearch(index, transactions, query, top_k, TRUE) IN
    /\ out' = Outcome("EmbeddingService.search",
                      [query |-> query, top_k |-> top_k], o.status, o.res)
    /\ UNCHANGED <<index, transactions, is_ready, idxFile, txFile, calls>>

\* VectorSearchService.search(query, top_k, user_id, category, min_amount,
\* max_amount)
VectorSearchService_search(a, k_checked) ==
    LET o == VectorSearch(is_ready, index, transactions, a, k_checked) IN
    /\ out' = Outcome("VectorSearchService.search", a, o.status, o.res)
    /\ UNCHANGED <<index, transactions, is_ready, idxFile, txFile, calls>>

\* TransactionSummarizer.summarize_transactions on the list the store holds,
\* as the /api/summary route calls it
TransactionSummarizer_summarize_transactions ==
    LET o == SummarizeTransactions(transactions) IN
    /\ out' = Outcome("summarize_transactions", NoArgs, o.status, o.res)
    /\ UNCHANGED <<index, transactions, is_ready, idxFile, txFile, calls>>

\* TransactionSummarizer.generate_text_summary on the same list
TransactionSummarizer_generate_text_summary ==
    LET o == GenerateTextSummary(transactions) IN
    /\ out' = Outcome("generate_text_summary", NoArgs, o.status, o.res)
    /\ UNCHANGED <<index, transactions, is_ready, idxFile, txFile, calls>>

\* VectorSearchService.get_user_transactions(user_id, limit)
get_user_transactions(user_id, limit) ==
    LET o == Listing(is_ready, transactions, "user_id", user_id, limit) IN
    /\ out' = Outcome("get_user_transactions",
                      [user_id |-> user_id, limit |-> limit], o.status, o.res)
    /\ transactions' = o.stored
    /\ UNCHANGED <<index, is_ready, idxFile, txFile, calls>>

\* VectorSearchService.get_category_transactions(category, limit)
get_category_transactions(category, limit) ==
    LET o == Listing(is_ready, transactions, "category", category, limit) IN
    /\ out' = Outcome("get_category_transactions",
                      [category |-> category, limit |-> limit],
                      o.status, o.res)
    /\ transactions' = o.stored
    /\ UNCHANGED <<index, is_ready, idxFile, txFile, calls>>

\* VectorSearchService.get_transaction_stats()
get_transaction_stats ==
    LET o == GetTransactionStats(is_ready, transactions) IN
    /\ out' = Outcome("get_transaction_stats", NoArgs, o.status, o.res)
    /\ UNCHANGED <<index, transactions, is_ready, idxFile, txFile, calls>>

\* A caller enters EmbeddingService.search(query, top_k)
BeginEmbeddingSearch(c, query, top_k) ==
    /\ calls[c].pc = "idle"
    /\ calls' = [calls EXCEPT ![c] =
                     [pc |-> "index?", kind |-> "es",
                      args |-> [query |-> query, top_k |-> top_k]]]
    /\ UNCHANGED <<index, transactions, is_ready, idxFile, txFile, out>>

\* A caller enters VectorSearchService.search(query, top_k, ...)
BeginVectorSearch(c, a) ==
    /\ calls[c].pc = "idle"
    /\ calls' = [calls EXCEPT ![c] = [pc |-> "ready?", kind |-> "vs", args |-> a]]
    /\ UNCHANGED <<index, transactions, is_ready, idxFile, txFile, out>>

\* `if not self.is_ready: raise RuntimeError(...)`
ReadyGuard(c) ==
    /\ calls[c].pc = "ready?"
    /\ calls' = [calls EXCEPT ![c] =
                     IF ~is_ready
                     THEN Done(@, "RuntimeError: Search service not initialized", <<>>)
                     ELSE [@ EXCEPT !.pc = "index?"]]
    /\ UNCHANGED <<index, transactions, is_ready, idxFile, txFile, out>>

\* `if self.index is None: raise ValueError(...)`
IndexGuard(c) ==
    /\ calls[c].pc = "index?"
    /\ calls' = [calls EXCEPT ![c] =
                     IF index = None
                     THEN Done(@, "ValueError: Index not built", <<>>)
                     ELSE [@ EXCEPT !.pc = "encode"]]
    /\ UNCHANGED <<index, transactions, is_ready, idxFile, txFile, out>>

\* `query_embedding = self.model.encode([query], ...)`
EncodeQuery(c) ==
    /\ calls[c].pc = "encode"
    /\ calls' = [calls EXCEPT ![c] =
                     [pc |-> "search", kind |-> @.kind, args |-> @.args,
                      query_embedding |-> Encode(@.args.query)]]
    /\ UNCHANGED <<index, transactions, is_ready, idxFile, txFile, out>>

\* `distances, indices = self.index.search(query_embedding, top_k)` and
\* `results = []`
IndexSearch(c) ==
    /\ calls[c].pc = "search"
    /\ calls' = [calls EXCEPT ![c] =
                     [pc |-> "loop", kind |-> @.kind, args |-> @.args,
                      hits |-> FaissSearch(index, @.query_embedding,
                                           RequestedK(@)),
                      results |-> <<>>]]
    /\ UNCHANGED <<index, transactions, is_ready, idxFile, txFile, out>>

\* one pass of `for idx, distance in zip(indices[0], distances[0])`
LoopStep(c) ==
    /\ calls[c].pc = "loop"
    /\ calls[c].hits # <<>>
    /\ LET call == calls[c]
           h == Head(call.hits)
       IN  IF ~(h.idx < Len(transactions))
           THEN /\ calls' = [calls EXCEPT ![c].hits = Tail(@)]
                /\ UNCHANGED transactions
           ELSE IF ~PyInRange(transactions, h.idx)
           THEN /\ calls' = [calls EXCEPT ![c] = Done(call, "IndexError", <<>>)]
                /\ UNCHANGED transactions
           ELSE LET w == ScoreWritten(transactions,
                                      CopyOf(transactions, h.idx), h.distance)
                IN  /\ transactions' = w.transactions
                    /\ calls' = [calls EXCEPT
                                     ![c].hits = Tail(@),
                                     ![c].results = Append(@, w.result)]
    /\ UNCHANGED <<index, is_ready, idxFile, txFile, out>>

\* the loop is over: EmbeddingService.search returns, and
\* VectorSearchService.search filters what it got and returns
LoopEnd(c) ==
    /\ calls[c].pc = "loop"
    /\ calls[c].hits = <<>>
    /\ calls' = [calls EXCEPT ![c] =
                     IF @.kind = "es" THEN Done(@, "ok", @.results)
                     ELSE Done(@, "ok", FilterResults(transactions, @.results,
                                                      <<>>, @.args))]
    /\ UNCHANGED <<index, transactions, is_ready, idxFile, txFile, out>>

\* the caller is finished with what the call returned
Return(c) ==
    /\ calls[c].pc = "done"
    /\ calls' = [calls EXCEPT ![c] = Idle]
    /\ UNCHANGED <<index, transactions, is_ready, idxFile, txFile, out>>

\* no search is in progress
Quiet == calls = NoCalls

\* A caller enters summarize_transactions(transactions): the empty list
\* returns at once, any other gets its count taken and fresh tables
BeginSummarize(c) ==
    /\ calls[c].pc = "idle"
    /\ calls' = [calls EXCEPT ![c] =
                     IF transactions = <<>>
                     THEN [pc |-> "done", kind |-> "sum", args |-> NoArgs,
                           status |-> "ok", results |-> NoReport]
                     ELSE [pc |-> "sum", kind |-> "sum", args |-> NoArgs,
                           total_count |-> Len(transactions), next |-> 1,
                           acc |-> EmptyStats]]
    /\ UNCHANGED <<index, transactions, is_ready, idxFile, txFile, out>>

\* one pass of `for txn in transactions` of a call in progress
SummarizeStep(c) ==
    /\ calls[c].pc = "sum"
    /\ calls[c].next <= Len(transactions)
    /\ LET call == calls[c]
           txn == transactions[call.next]
       IN  calls' = [calls EXCEPT ![c] =
                        IF ~IsNumber(Get(txn, "amount", Num(0)))
                        THEN Done(call, "TypeError", <<>>)
                        ELSE [call EXCEPT !.next = @ + 1,
                                          !.acc = Accumulate(@, txn)]]
    /\ UNCHANGED <<index, transactions, is_ready, idxFile, txFile, out>>

\* the loop is over: the report is built from the call's tables and returned
SummarizeEnd(c) ==
    /\ calls[c].pc = "sum"
    /\ calls[c].next > Len(transactions)
    /\ calls' = [calls EXCEPT ![c] =
                     Done(@, "ok", Report(@.acc, @.total_count))]
    /\ UNCHANGED <<index, transactions, is_ready, idxFile, txFile, out>>

\* Building, persisting and loading, common to both specifications
NextStore ==
    \/ NewService
    \/ \E txs \in BuildInputs, encode_ok \in BOOLEAN : build_index(txs, encode_ok)
    \/ \E fault \in SaveFaults : save_index(fault)
    \/ load_index

\* The EmbeddingService on its own, as the setup script and the tests use it
NextIndex ==
    \/ NextStore
    \/ \E q \in Queries, k \in EmbeddingKs : EmbeddingService_search(q, k)

SpecIndex == Init /\ [][NextIndex]_vars

\* The VectorSearchService with the EmbeddingService it owns, as the API
\* uses it
Next ==
    \/ NextStore
    \/ initialize
    \/ \E a \in SearchArgs \cup NonPositiveArgs :
           \E k_checked \in FaissBuilds(a.top_k) :
               VectorSearchService_search(a, k_checked)

Spec == Init /\ [][Next]_vars

\* The TransactionSummarizer on its own: a pure function of the list it is
\* given.  The list is whatever the metadata store holds, records of any
\* shape included, since neither pickle.load nor the route checks them.
InitSummary ==
    /\ index = None
    /\ transactions \in SummaryInputs
    /\ is_ready = FALSE
    /\ idxFile = NoFile
    /\ txFile = NoFile
    /\ out = Outcome("__init__", NoArgs, "ok", <<>>)
    /\ calls = NoCalls

NextSummary ==
    \/ TransactionSummarizer_summarize_transactions
    \/ TransactionSummarizer_generate_text_summary

SpecSummary == InitSummary /\ [][NextSummary]_vars

\* The listings and statistics of a VectorSearchService over the list it
\* holds, on a service that initialize has made ready and on one it has not.
InitListing ==
    /\ is_ready \in BOOLEAN
    /\ index = IF is_ready THEN IndexFlatL2 ELSE None
    /\ transactions \in StoredInputs
    /\ idxFile = NoFile
    /\ txFile = NoFile
    /\ out = Outcome("__init__", NoArgs, "ok", <<>>)
    /\ calls = NoCalls

NextListing ==
    \/ \E u \in UserIds, limit \in Limits : get_user_transactions(u, limit)
    \/ \E c \in Categories, limit \in Limits :
           get_category_transactions(c, limit)
    \/ get_transaction_stats

SpecListing == InitListing /\ [][NextListing]_vars

\* Every query of a ready service on one stored list: the searches pass by
\* pass, one call at a time, the listings and the statistics in one step.
InitQueries ==
    /\ transactions \in QueryStores
    /\ index = LoadedIndex(transactions)
    /\ is_ready = TRUE
    /\ idxFile = NoFile
    /\ txFile = NoFile
    /\ out = Outcome("__init__", NoArgs, "ok", <<>>)
    /\ calls = NoCalls

NextQueries ==
    \/ /\ Quiet
       /\ \/ \E u \in UserIds : get_user_transactions(u, MaxLimit)
          \/ \E c \in Categories : get_category_transactions(c, MaxLimit)
          \/ get_transaction_stats
          \/ \E c \in Callers :
                 \/ \E q \in SearchQueries : BeginEmbeddingSearch(c, q, MaxK)
                 \/ \E a \in UnfilteredArgs : BeginVectorSearch(c, a)
    \/ \E c \in Callers :
           \/ ReadyGuard(c) \/ IndexGuard(c) \/ EncodeQuery(c) \/ IndexSearch(c)
           \/ LoopStep(c) \/ LoopEnd(c) \/ Return(c)

SpecQueries == InitQueries /\ [][NextQueries]_vars

\* Several callers summarizing the same list at the same time.
InitReentrant ==
    /\ index = None
    /\ transactions \in ReentrantInputs
    /\ is_ready = FALSE
    /\ idxFile = NoFile
    /\ txFile = NoFile
    /\ out = Outcome("__init__", NoArgs, "ok", <<>>)
    /\ calls = NoCalls

NextReentrant ==
    \E c \in Callers :
        \/ BeginSummarize(c)
        \/ SummarizeStep(c)
        \/ SummarizeEnd(c)
        \/ Return(c)

SpecReentrant == InitReentrant /\ [][NextReentrant]_vars

\* Several callers searching one service at the same time.  The index is
\* built, saved and loaded only while no search is in progress.
NextConcurrent ==
    \/ /\ Quiet
       /\ \/ \E txs \in BuildInputs : build_index(txs, TRUE)
          \/ save_index("none")
          \/ initialize
    \/ \E c \in Callers :
           \/ \E q \in Queries : BeginEmbeddingSearch(c, q, MaxK)
           \/ \E a \in ConcurrentArgs : BeginVectorSearch(c, a)
           \/ ReadyGuard(c)
           \/ IndexGuard(c)
           \/ EncodeQuery(c)
           \/ IndexSearch(c)
           \/ LoopStep(c)
           \/ LoopEnd(c)
           \/ Return(c)

SpecConcurrent == Init /\ [][NextConcurrent]_vars

-----------------------------------------------------------------------------
(* Properties *)

EsOp == "EmbeddingService.search"
VsOp == "VectorSearchService.search"
NotBuilt == "ValueError: Index not built"
NotReady == "RuntimeError: Search service not initialized"

\* The positional coupling: vector i is the embedding of transaction i.
Coupled(ix, txs) ==
    ix # None /\ ntotal(ix) = Len(txs) /\ ix.xb = create_embeddings(txs)

\* What EmbeddingService.search handed to the filter loop of the last
\* VectorSearchService.search (the store is not changed by a search).
LastCandidates ==
    EmbeddingSearch(index, transactions, out.args.query, out.args.top_k * 2,
                    FALSE).res

\* C1 (as claimed): every transaction returned by VectorSearchService.search
\* satisfies every filter that is set (not None): the amount bounds, and
\* equality with user_id and with category.
C1_SetFiltersHold ==
    (out.op = VsOp /\ out.status = "ok") =>
        \A i \in 1..Len(out.res) :
            LET r == out.res[i]  a == out.args IN
            /\ IsSet(a.min_amount) => r.amount >= ValueOf(a.min_amount)
            /\ IsSet(a.max_amount) => r.amount <= ValueOf(a.max_amount)
            /\ IsSet(a.user_id) => r.user_id = ValueOf(a.user_id)
            /\ IsSet(a.category) => r.category = ValueOf(a.category)

\* C1 (amended): every transaction returned by VectorSearchService.search
\* satisfies the amount bounds that are set, and equals user_id and
\* category whenever these are set to a non-empty string.
C1_NonEmptyFiltersHold ==
    (out.op = VsOp /\ out.status = "ok") =>
        \A i \in 1..Len(out.res) :
            LET r == out.res[i]  a == out.args IN
            /\ IsSet(a.min_amount) => r.amount >= ValueOf(a.min_amount)
            /\ IsSet(a.max_amount) => r.amount <= ValueOf(a.max_amount)
            /\ (IsSet(a.user_id) /\ ValueOf(a.user_id) # "")
                   => r.user_id = ValueOf(a.user_id)
            /\ (IsSet(a.category) /\ ValueOf(a.category) # "")
                   => r.category = ValueOf(a.category)

\* A filtered search that dropped a nearer candidate and returned a farther
\* one, with a text filter and an amount bound active.
C1_Witness ==
    /\ out.op = VsOp /\ out.status = "ok"
    /\ out.args.user_id = {"USER001"} /\ out.args.max_amount = {1}
    /\ Len(out.res) = 1
    /\ Len(LastCandidates) >= 2
    /\ LastCandidates[1].user_id = "USER002"
    /\ out.res[1].transaction_id = LastCandidates[2].transaction_id

\* C2: on a built (coupled) index, EmbeddingService.search(query, k) returns
\* at most k results and each is the stored transaction at a position the
\* nearest-neighbour search reported, with that neighbour's distance.
C2_ResultsAtReportedPositions ==
    (out.op = EsOp /\ Coupled(index, transactions)) =>
        LET hits == FaissSearch(index, Encode(out.args.query), out.args.top_k) IN
        /\ out.status = "ok"
        /\ Len(out.res) <= out.args.top_k
        /\ \A i \in 1..Len(out.res) :
               \E j \in 1..Len(hits) :
                   /\ hits[j].idx \in 0..(ntotal(index) - 1)
                   /\ out.res[i] = Result(transactions[hits[j].idx + 1],
                                          hits[j].distance)

\* C3: on a built (coupled) index of n >= 1 vectors, a search with k > n
\* returns exactly n results, one per indexed transaction, none twice and
\* none standing for a missing neighbour.
C3_AllAvailableWhenKExceedsN ==
    (/\ out.op = EsOp
     /\ Coupled(index, transactions)
     /\ ntotal(index) >= 1
     /\ out.args.top_k > ntotal(index)) =>
        /\ out.status = "ok"
        /\ Len(out.res) = ntotal(index)
        /\ \A i, j \in 1..Len(out.res) : i # j => out.res[i].transaction_id # out.res[j].transaction_id
        /\ \A i \in 1..Len(out.res) : out.res[i].distance # FLT_MAX

C5_PositionalInvariant ==
    index # None => Coupled(index, transactions)

\* C6: a save_index call leaves the two files both as they were or both
\* written from the instance being saved.
C6_SaveAtomic ==
    [][out'.op = "save_index" =>
          \/ idxFile' = idxFile /\ txFile' = txFile
          \/ idxFile' = write_index(index) /\ txFile' = pickle_dump(transactions)]_vars

\* C7: a load_index call replaces both index and transactions with the
\* snapshot, or fails and leaves both as they were.
C7_LoadAllOrNothing ==
    [][out'.op = "load_index" =>
          \/ /\ out'.status = "ok"
             /\ index' = read_index(idxFile)
             /\ transactions' = pickle_load(txFile)
          \/ /\ out'.status # "ok"
             /\ index' = index
             /\ transactions' = transactions]_vars

\* C8: load_index fails when the metadata file is absent or unreadable or
\* holds a number of records different from the index's vector count.
C8_LoadRejectsMismatch ==
    [][(/\ out'.op = "load_index"
        /\ idxFile.exists
        /\ \/ ~txFile.exists
           \/ ~txFile.complete
           \/ Len(txFile.obj) # idxFile.ntotal) => out'.status # "ok"]_vars

\* C9: EmbeddingService.search fails with the index-not-built error exactly
\* when no index is set, and then returns nothing; a build_index or
\* load_index that succeeds sets an index, and a set index stays set for
\* the life of the instance.
C9_NotBuiltIffNoIndex ==
    /\ [](out.op = EsOp =>
            /\ (out.status = NotBuilt) <=> (index = None)
            /\ (index = None) => out.res = <<>>)
    /\ [][(out'.op \in {"build_index", "load_index"} /\ out'.status = "ok")
              => index' # None]_vars
    /\ [][(index # None /\ out'.op # "__init__") => index' # None]_vars

\* search was refused on a fresh instance
C9_Witness ==
    out.op = EsOp /\ index = None /\ out.status = NotBuilt

\* C10: VectorSearchService.search on a service that is not ready fails
\* with the not-ready error, returns nothing and changes no state, also
\* when the embedding service holds no index or an index from before.
C10_NotReadyRefused ==
    [][(out'.op = VsOp /\ ~is_ready) =>
          /\ out'.status = NotReady
          /\ out'.res = <<>>
          /\ UNCHANGED <<index, transactions, is_ready, idxFile, txFile>>]_vars

\* search was refused on a service that is not ready although its
\* embedding service holds a built index
C10_Witness ==
    /\ out.op = VsOp /\ out.status = NotReady
    /\ ~is_ready
    /\ index # None /\ Len(transactions) >= 1

NoAmountCanPass ==
    \/ /\ IsSet(out.args.min_amount) /\ IsSet(out.args.max_amount)
       /\ ValueOf(out.args.min_amount) > ValueOf(out.args.max_amount)
    \/ /\ IsSet(out.args.min_amount)
       /\ \A i \in 1..Len(transactions) :
              transactions[i].amount < ValueOf(out.args.min_amount)

\* C12: on a ready service, a VectorSearchService.search whose amount
\* bounds no indexed transaction can satisfy returns the empty sequence
\* and raises no error.
C12_EmptyRangeGivesEmptyResult ==
    (out.op = VsOp /\ is_ready /\ out.args.top_k >= 1 /\ NoAmountCanPass) =>
        (out.status = "ok" /\ out.res = <<>>)

\* The candidates of the last search that pass its filter conjunction, in
\* the order the index returned them.
LastSurvivors ==
    SelectSeq(LastCandidates,
              LAMBDA r : Passes(r, out.args.user_id, out.args.category,
                                out.args.min_amount, out.args.max_amount))

Min(a, b) == IF a <= b THEN a ELSE b

\* C13: VectorSearchService.search asks the embedding index once, for
\* 2 * top_k candidates, and returns the first min(top_k, s) of the s
\* candidates that pass the filters, in the order of the index: never more
\* than top_k, never reordered, and fewer than top_k when s < top_k.
C13_FirstSurvivorsInIndexOrder ==
    (out.op = VsOp /\ out.status = "ok" /\ out.args.top_k >= 1) =>
        /\ Len(LastCandidates) <= 2 * out.args.top_k
        /\ out.res = SubSeq(LastSurvivors, 1,
                            Min(out.args.top_k, Len(LastSurvivors)))
        /\ Len(out.res) <= out.args.top_k

\* More candidates pass than top_k allows (the loop stops early), and in
\* another search fewer pass than were asked for.
C13_Witness ==
    /\ out.op = VsOp /\ out.status = "ok" /\ out.args.top_k >= 1
    /\ Len(LastSurvivors) > out.args.top_k
    /\ Len(out.res) = out.args.top_k

C13_WitnessPartial ==
    /\ out.op = VsOp /\ out.status = "ok" /\ out.args.top_k >= 2
    /\ Len(LastSurvivors) >= 1
    /\ Len(LastSurvivors) < out.args.top_k
    /\ Len(out.res) = Len(LastSurvivors)

-----------------------------------------------------------------------------
(* Properties of the summary report *)

SumOp == "summarize_transactions"

\* summarize_transactions returned the report of a non-empty list
Reported == out.op = SumOp /\ out.status = "ok" /\ transactions # <<>>

RECURSIVE SeqSum(_)
SeqSum(numbers) ==
    IF numbers = <<>> THEN 0 ELSE Head(numbers) + SeqSum(Tail(numbers))

Abs(n) == IF n < 0 THEN -n ELSE n

\* C14: in the report of a non-empty list, the total_amount of all
\* categories together equals total_debit + total_credit of the overview,
\* up to one hundredth per category.
C14_CategoryTotalsAddUp ==
    Reported =>
        LET by_category == out.res.by_category
            totals == [i \in 1..Len(by_category) |-> by_category[i].total_amount]
        IN  Abs(SeqSum(totals) - (out.res.overview.total_debit
                                  + out.res.overview.total_credit))
                <= Len(by_category)

\* A report over several categories with debits, credits and a record whose
\* type is neither.
C14_Witness ==
    /\ Reported
    /\ Len(out.res.by_category) >= 2
    /\ out.res.overview.total_debit > 0
    /\ \E i \in 1..Len(transactions) :
           Get(transactions[i], "type", "debit") \notin {"debit", "credit"}

\* every amount of the input is a number that is not negative
NonNegativeAmounts ==
    \A i \in 1..Len(transactions) :
        LET amount == Get(transactions[i], "amount", Num(0)) IN
        IsNumber(amount) /\ amount.num >= 0

\* C15: for a non-empty list of non-negative amounts, savings_rate is 0
\* when total_credit is 0, and otherwise it is
\* (total_credit - total_debit) / total_credit * 100 rounded to two
\* decimals (at most half a hundredth away from the quotient) and at most
\* 100.  Rates are in hundredths of a percent.
C15_SavingsRate ==
    (Reported /\ NonNegativeAmounts) =>
        LET credit == out.res.overview.total_credit
            debit  == out.res.overview.total_debit
            rate   == out.res.insights.savings_rate
        IN  /\ credit = 0 => rate = 0
            /\ credit # 0 =>
                   /\ 2 * Abs(rate * credit - (credit - debit) * 100 * 100)
                          <= credit
                   /\ rate <= 100 * 100

\* A rate that had to be rounded.
C15_Witness ==
    /\ Reported /\ NonNegativeAmounts
    /\ out.res.overview.total_credit > 0
    /\ out.res.insights.savings_rate * out.res.overview.total_credit
           # (out.res.overview.total_credit - out.res.overview.total_debit)
                 * 100 * 100

\* No credit at all: the rate is reported as 0.
C15_WitnessNoCredit ==
    /\ Reported /\ NonNegativeAmounts
    /\ out.res.overview.total_credit = 0
    /\ out.res.overview.total_debit > 0
    /\ out.res.insights.savings_rate = 0

\* The categories of the input, their totals and the place of their first
\* occurrence, taken from the input list itself.
CategoryOf(txn) == Get(txn, "category", "Unknown")
InputCategories == {CategoryOf(transactions[i]) : i \in 1..Len(transactions)}
CategoryTotal(c) ==
    SeqSum([i \in 1..Len(transactions) |->
               IF CategoryOf(transactions[i]) = c
               THEN Get(transactions[i], "amount", Num(0)).num ELSE 0])
FirstOccurrence(c) ==
    CHOOSE i \in 1..Len(transactions) :
        /\ CategoryOf(transactions[i]) = c
        /\ \A j \in 1..(i - 1) : CategoryOf(transactions[j]) # c

\* C16: top_spending_category is the category other than "Income" with
\* the largest total; among several with the largest total it is the one
\* that occurs first in the input; when the input has no category other
\* than "Income", the report says "None" with amount 0.
C16_TopSpendingCategory ==
    Reported =>
        LET spending == InputCategories \ {"Income"}
            top == out.res.insights.top_spending_category
        IN  IF spending = {}
            THEN /\ top = "None"
                 /\ out.res.insights.top_spending_amount = 0
            ELSE /\ top \in spending
                 /\ out.res.insights.top_spending_amount = CategoryTotal(top)
                 /\ \A c \in spending :
                        \/ CategoryTotal(c) < CategoryTotal(top)
                        \/ /\ CategoryTotal(c) = CategoryTotal(top)
                           /\ FirstOccurrence(top) <= FirstOccurrence(c)

\* Two spending categories share the largest total while "Income" has a
\* larger one.
C16_Witness ==
    /\ Reported
    /\ "Income" \in InputCategories
    /\ CategoryTotal("Income")
           > CategoryTotal(out.res.insights.top_spending_category)
    /\ \E c \in InputCategories \ {"Income"} :
           /\ c # out.res.insights.top_spending_category
           /\ CategoryTotal(c)
                  = CategoryTotal(out.res.insights.top_spending_category)

\* Only "Income" records: the sentinel is reported.
C16_WitnessNone ==
    /\ Reported
    /\ InputCategories = {"Income"}
    /\ out.res.insights.top_spending_category = "None"

\* C17: top_categories lists min(5, number of categories) categories, no
\* unlisted category has a larger total than a listed one, the totals do
\* not increase along the list, and categories with equal totals stand in
\* the order of their first occurrence in the input.
C17_TopCategories ==
    Reported =>
        LET top == out.res.top_categories
            listed == {top[i].category : i \in 1..Len(top)}
        IN  /\ Len(top) = Min(5, Cardinality(InputCategories))
            /\ \A i \in 1..Len(top) :
                   /\ top[i].category \in InputCategories
                   /\ top[i].total_amount = CategoryTotal(top[i].category)
            /\ \A i, j \in 1..Len(top) :
                   i < j =>
                       /\ top[i].category # top[j].category
                       /\ \/ top[i].total_amount > top[j].total_amount
                          \/ /\ top[i].total_amount = top[j].total_amount
                             /\ FirstOccurrence(top[i].category)
                                    < FirstOccurrence(top[j].category)
            /\ \A c \in InputCategories \ listed :
                   \A i \in 1..Len(top) : top[i].total_amount >= CategoryTotal(c)

\* More categories than the list holds, with equal totals inside the list
\* and on both sides of its end.
C17_Witness ==
    /\ Reported
    /\ Cardinality(InputCategories) > 5
    /\ Len(out.res.top_categories) = 5
    /\ out.res.top_categories[4].total_amount
           = out.res.top_categories[5].total_amount
    /\ \E c \in InputCategories :
           /\ \A i \in 1..5 : out.res.top_categories[i].category # c
           /\ CategoryTotal(c) = out.res.top_categories[5].total_amount

\* The sum of the amounts of the input records that satisfy Test.
AmountWhere(Test(_)) ==
    SeqSum([i \in 1..Len(transactions) |->
               IF Test(transactions[i])
               THEN Get(transactions[i], "amount", Num(0)).num ELSE 0])

UserOf(txn) == Get(txn, "user_id", "Unknown")
HasType(txn, type) == "type" \in DOMAIN txn /\ txn.type = type

\* C18: total_debit is the sum of the amounts of the records whose type is
\* debit and total_credit the sum of the amounts of those whose type is
\* credit, in the overview and for each user of by_user; net_balance is
\* total_credit - total_debit; and the per-user debit and credit totals
\* sum to the overview totals.
C18_DebitCreditTotals ==
    Reported =>
        LET overview == out.res.overview
            by_user == out.res.by_user
            IsDebit(txn) == HasType(txn, "debit")
            IsCredit(txn) == HasType(txn, "credit")
        IN  /\ overview.total_debit = AmountWhere(IsDebit)
            /\ overview.total_credit = AmountWhere(IsCredit)
            /\ overview.net_balance = overview.total_credit - overview.total_debit
            /\ \A u \in 1..Len(by_user) :
                   LET IsUserDebit(txn) ==
                           UserOf(txn) = by_user[u].user /\ IsDebit(txn)
                       IsUserCredit(txn) ==
                           UserOf(txn) = by_user[u].user /\ IsCredit(txn)
                   IN  /\ by_user[u].total_debit = AmountWhere(IsUserDebit)
                       /\ by_user[u].total_credit = AmountWhere(IsUserCredit)
                       /\ by_user[u].net_balance
                              = by_user[u].total_credit - by_user[u].total_debit
            /\ SeqSum([u \in 1..Len(by_user) |-> by_user[u].total_debit])
                   = overview.total_debit
            /\ SeqSum([u \in 1..Len(by_user) |-> by_user[u].total_credit])
                   = overview.total_credit

\* every amount of the input is a number
NumericAmounts ==
    \A i \in 1..Len(transactions) :
        IsNumber(Get(transactions[i], "amount", Num(0)))

\* the locals of the last summarize_transactions after its loop
LoopTables == AccumulateAll(EmptyStats, transactions).acc

\* C19: every record, also one whose timestamp does not parse, is counted
\* once in each rollup that is not by month: total_transactions and the
\* counts of by_category, by_user and by_payment_method each add up to the
\* length of the input.  A timestamp that does not parse keeps the record
\* out of the monthly table only, and the report is still produced.
C19_EveryRecordCounted ==
    (out.op = SumOp /\ transactions # <<>> /\ NumericAmounts) =>
        /\ out.status = "ok"
        /\ out.res.overview.total_transactions = Len(transactions)
        /\ SeqSum([i \in 1..Len(out.res.by_category) |->
                      out.res.by_category[i].count]) = Len(transactions)
        /\ SeqSum([i \in 1..Len(out.res.by_user) |->
                      out.res.by_user[i].transaction_count]) = Len(transactions)
        /\ SeqSum([i \in 1..Len(out.res.by_payment_method) |->
                      out.res.by_payment_method[i].count]) = Len(transactions)
        /\ SeqSum([i \in 1..Len(LoopTables.monthly_stats) |->
                      LoopTables.monthly_stats[i].count])
               = Cardinality({i \in 1..Len(transactions) :
                     MonthKey(Get(transactions[i], "timestamp", "")) # Unset})

\* A report over records of which some have a timestamp that parses and
\* some have not.
C19_Witness ==
    /\ Reported
    /\ \E i, j \in 1..Len(transactions) :
           /\ "timestamp" \in DOMAIN transactions[i]
           /\ MonthKey(transactions[i].timestamp) = Unset
           /\ MonthKey(Get(transactions[j], "timestamp", "")) # Unset
    /\ out.res.overview.total_transactions = Len(transactions)
    /\ LoopTables.monthly_stats # <<>>

\* a record that has each of the three labelled keys, or carries the label
\* "Unknown" in its place
Labelled(txn) ==
    [category |-> Get(txn, "category", "Unknown"),
     user_id |-> Get(txn, "user_id", "Unknown"),
     payment_method |-> Get(txn, "payment_method", "Unknown")]

\* C20: summarize_transactions returns a report for every non-empty list,
\* whatever single fields of its records are missing or malformed; a record
\* without category, user_id or payment_method is counted under "Unknown".
C20_NeverRaisesOnBadRecord ==
    (out.op = SumOp /\ transactions # <<>>) =>
        /\ out.status = "ok"
        /\ \A i \in 1..Len(transactions) :
               LET l == Labelled(transactions[i]) IN
               /\ \E c \in 1..Len(out.res.by_category) :
                      out.res.by_category[c].category = l.category
               /\ \E u \in 1..Len(out.res.by_user) :
                      out.res.by_user[u].user = l.user_id
               /\ \E m \in 1..Len(out.res.by_payment_method) :
                      out.res.by_payment_method[m].payment_method
                          = l.payment_method

TextOp == "generate_text_summary"

\* C21: on an empty list summarize_transactions returns the sentinel
\* report, which holds a message and nothing else, and
\* generate_text_summary returns that message itself; neither raises.
C21_EmptySentinel ==
    (transactions = <<>> /\ out.op \in {SumOp, TextOp}) =>
        /\ out.status = "ok"
        /\ out.op = SumOp =>
               /\ DOMAIN out.res = {"message"}
               /\ out.res.message = "No transactions to summarize"
        /\ out.op = TextOp => out.res = "No transactions to summarize"

\* generate_text_summary has returned on the empty list.
C21_Witness ==
    transactions = <<>> /\ out.op = TextOp /\ out.status = "ok"

\* what a call that ran alone on the present service returns
Alone(call) ==
    IF call.kind = "es"
    THEN EmbeddingSearch(index, transactions, call.args.query,
                         call.args.top_k, TRUE)
    ELSE VectorSearch(is_ready, index, transactions, call.args, TRUE)

\* C22: searches that run side by side on one service, with no build_index
\* or load_index in between, each end as they end when run alone: the same
\* status and the same results.
C22_ConcurrentSearchesAgree ==
    \A c \in Callers :
        calls[c].pc = "done" =>
            /\ calls[c].status = Alone(calls[c]).status
            /\ SeenAll(transactions, calls[c].results) = Alone(calls[c]).res

\* One call holds the results it returned while another call, with a
\* different query, is in the middle of its loop with a result collected
\* and a neighbour still to go.
C22_Witness ==
    /\ calls[1].pc = "done" /\ calls[1].status = "ok"
    /\ calls[1].results # <<>>
    /\ calls[2].pc = "loop"
    /\ calls[2].results # <<>> /\ calls[2].hits # <<>>
    /\ calls[1].args.query # calls[2].args.query

\* C23: summarize_transactions leaves the list and its records as they are
\* and keeps nothing between calls: every call on the list, whether it ran
\* alone, after another call or with its passes interleaved with those of
\* another call, ends with the report of a single call on that list, so any
\* two calls on equal inputs return equal reports.
C23_SummarizeReentrant ==
    /\ [](\A c \in Callers :
             calls[c].pc = "done" =>
                 /\ calls[c].status = SummarizeTransactions(transactions).status
                 /\ calls[c].results = SummarizeTransactions(transactions).res)
    /\ [][transactions' = transactions]_vars

\* One call has returned its report of a list of two records while another
\* call on the same list is between its two passes.
C23_Witness ==
    /\ Len(transactions) = 2
    /\ calls[1].pc = "done" /\ calls[1].status = "ok"
    /\ calls[2].pc = "sum" /\ calls[2].next = 2

\* the error the interface names for an empty list
EmptyInputError == "EmptyInputError"

\* C24: build_index on an empty list fails with the empty-input error and
\* does not leave the new list next to the index the instance had before.
C24_EmptyBuildRejected ==
    [][(out'.op = "build_index" /\ out'.args.transactions = <<>>)
           => /\ out'.status = EmptyInputError
              /\ ~(transactions' # transactions /\ index' = index)]_vars

-----------------------------------------------------------------------------
(* Properties of the listings and statistics *)

UserOp == "get_user_transactions"
CategoryOp == "get_category_transactions"

RECURSIVE ToNat(_)
\* the number a string of digits writes
ToNat(str) ==
    IF str = "" THEN 0
    ELSE 10 * ToNat(SubSeq(str, 1, Len(str) - 1))
         + (Ord(SubSeq(str, Len(str), Len(str))) - Ord("0"))

\* the timestamp is an ISO date, or an ISO date and time to the second
IsIso(ts) ==
    /\ MonthKey(ts) # Unset
    /\ Len(ts) = 19 =>
           /\ IsDigits(SubSeq(ts, 12, 13)) /\ SubSeq(ts, 14, 14) = ":"
           /\ IsDigits(SubSeq(ts, 15, 16)) /\ SubSeq(ts, 17, 17) = ":"
           /\ IsDigits(SubSeq(ts, 18, 19))

\* seconds since the year 2000 on a calendar of 31-day months: later
\* instants are larger
Instant(ts) ==
    LET day == ((ToNat(SubSeq(ts, 1, 4)) - 2000) * 12
                    + ToNat(SubSeq(ts, 6, 7))) * 31
                   + ToNat(SubSeq(ts, 9, 10))
        secs == IF Len(ts) = 19
                THEN ToNat(SubSeq(ts, 12, 13)) * 3600
                         + ToNat(SubSeq(ts, 15, 16)) * 60
                         + ToNat(SubSeq(ts, 18, 19))
                ELSE 0
    IN  day * 86400 + secs

\* how often a record occurs in a list
Occurrences(seq, t) == Cardinality({i \in 1..Len(seq) : seq[i] = t})

\* the stored records whose key has the value
Matching(key, value) ==
    {i \in 1..Len(transactions) :
        key \in DOMAIN transactions[i] /\ transactions[i][key] = value}

\* the last listing returned records of the store with the value under the
\* key, at most limit of them, newest first, all of them when no more than
\* limit match
ListedRight(key, value, limit) ==
    LET res == out.res IN
    /\ out.status = "ok"
    /\ \A i \in 1..Len(res) :
           /\ key \in DOMAIN res[i] /\ res[i][key] = value
           /\ Occurrences(res, res[i]) <= Occurrences(transactions, res[i])
    /\ Len(res) <= limit
    /\ \A i, j \in 1..Len(res) :
           (/\ i < j
            /\ "timestamp" \in DOMAIN res[i] /\ IsIso(res[i].timestamp)
            /\ "timestamp" \in DOMAIN res[j] /\ IsIso(res[j].timestamp))
               => Instant(res[i].timestamp) >= Instant(res[j].timestamp)
    /\ Cardinality(Matching(key, value)) <= limit =>
           \A i \in Matching(key, value) :
               Occurrences(res, transactions[i])
                   = Occurrences(transactions, transactions[i])

\* C25: on a ready service get_user_transactions(u, limit) returns only
\* stored records of user u and get_category_transactions(c, limit) only
\* stored records of category c, at most limit of them, newest first, and a
\* matching record is left out only when more than limit match; on a service
\* that is not ready both raise.
C25_ListingsFilterSortLimit ==
    /\ (out.op = UserOp /\ is_ready) =>
           ListedRight("user_id", out.args.user_id, out.args.limit)
    /\ (out.op = CategoryOp /\ is_ready) =>
           ListedRight("category", out.args.category, out.args.limit)
    /\ (out.op \in {UserOp, CategoryOp} /\ ~is_ready) =>
           out.status = NotReady

\* A listing by user put two records in the other order than the store
\* holds them and left out a third matching one, next to a record of another
\* user.
C25_Witness ==
    /\ out.op = UserOp /\ is_ready /\ out.args.limit = 2
    /\ Len(transactions) = 3
    /\ Cardinality(Matching("user_id", out.args.user_id)) = 2
    /\ Len(out.res) = 2
    /\ out.res # WithKey(transactions, "user_id", out.args.user_id)

\* A listing by category cut three matching records down to the newest one.
C25_WitnessCut ==
    /\ out.op = CategoryOp /\ is_ready /\ out.args.limit = 1
    /\ Cardinality(Matching("category", out.args.category)) = 3
    /\ Len(out.res) = 1
    /\ out.res[1] # transactions[1]

\* A listing on a service that is not ready raised.
C25_WitnessNotReady ==
    /\ out.op = UserOp /\ ~is_ready /\ transactions # <<>>
    /\ out.status = NotReady

-----------------------------------------------------------------------------
(* Properties of initialize *)

\* both files are there and the metadata file is whole: load_index succeeds
Loadable == idxFile.exists /\ txFile.exists /\ txFile.complete

\* C26: initialize never raises.  It returns True and sets is_ready to True
\* when load_index succeeds, and returns False and sets is_ready to False
\* when load_index fails, whatever is_ready was before the call.
C26_InitializeNeverRaises ==
    [][out'.op = "initialize" =>
           /\ out'.status = "ok"
           /\ out'.res = <<Loadable>>
           /\ is_ready' = Loadable]_vars

\* initialize has returned False on an instance that holds an index from
\* before, the metadata file having been cut short since.
C26_Witness ==
    /\ out.op = "initialize" /\ out.res = <<FALSE>> /\ ~is_ready
    /\ index # None /\ transactions # <<>>
    /\ idxFile.exists /\ txFile = Truncated

\* C27: whenever initialize leaves the service ready, the embedding service
\* holds a loaded index and the metadata list of that same snapshot, and a
\* search on a ready service never fails with the index-not-built error.
C27_ReadyMeansLoadedSnapshot ==
    /\ []((out.op = VsOp /\ is_ready) => out.status # NotBuilt)
    /\ [][(out'.op = "initialize" /\ is_ready') =>
              Coupled(index', transactions')]_vars

\* the part of C27 about the index alone: a ready service holds an index
C27_ReadyHasIndex == is_ready => index # None

-----------------------------------------------------------------------------
(* Properties of the queries together *)

\* C28: queries leave the store unchanged.  No step of a search, a listing
\* or the statistics changes the stored list, which keeps its records in
\* their order, and no stored record has a similarity_score or a distance:
\* the scores are on the copies that a search returns.
C28_QueriesLeaveStore ==
    /\ [][transactions' = transactions]_vars
    /\ [](\A i \in 1..Len(transactions) :
             DOMAIN transactions[i] \cap {"similarity_score", "distance"} = {})

\* A search has returned scored results of a list of two records, after a
\* listing by user that returned the two in the other order than they are
\* stored in.
C28_Witness ==
    /\ Len(transactions) = 2
    /\ out.op = UserOp /\ Len(out.res) = 2 /\ out.res # transactions
    /\ \E c \in Callers :
           /\ calls[c].pc = "done" /\ calls[c].status = "ok"
           /\ calls[c].results # <<>>
           /\ \A i \in 1..Len(calls[c].results) :
                  "similarity_score"
                      \in DOMAIN Seen(transactions, calls[c].results[i])

\* the last VectorSearchService.search had no filter set
Unfiltered ==
    /\ out.args.user_id = Unset /\ out.args.category = Unset
    /\ out.args.min_amount = Unset /\ out.args.max_amount = Unset

\* what EmbeddingService.search(query, top_k) returns on the store as it is
DirectSearch ==
    EmbeddingSearch(index, transactions, out.args.query, out.args.top_k, TRUE)

\* C29: with no filter set, VectorSearchService.search(query, top_k) on a
\* ready service returns the same sequence as EmbeddingService.search(query,
\* top_k): asking for 2 * top_k and cutting to top_k changes neither which
\* transactions are returned nor their order.
C29_UnfilteredSearchIsDirectSearch ==
    (out.op = VsOp /\ is_ready /\ Unfiltered /\ out.args.top_k > 0) =>
        /\ out.status = DirectSearch.status
        /\ out.res = DirectSearch.res

\* C29 on the stores whose index and list are in step
C29_OnCoupledStore ==
    (out.op = VsOp /\ is_ready /\ Unfiltered /\ out.args.top_k > 0
         /\ Coupled(index, transactions)) =>
        /\ out.status = DirectSearch.status
        /\ out.res = DirectSearch.res

StatsOp == "get_transaction_stats"

\* the overview that summarize_transactions reports for the stored list
SummaryOfStore == SummarizeTransactions(transactions)

\* C30: for the same non-empty list get_transaction_stats and
\* summarize_transactions agree: total_transactions, total_debit,
\* total_credit and net_balance of the statistics are those of the summary's
\* overview, and the statistics' total_amount is total_debit + total_credit,
\* whatever the type of a record holds.
C30_StatsAgreeWithSummary ==
    (out.op = StatsOp /\ is_ready /\ transactions # <<>>) =>
        /\ out.status = "ok"
        /\ SummaryOfStore.status = "ok"
        /\ LET stats == out.res
               overview == SummaryOfStore.res.overview
           IN  /\ stats.total_transactions = overview.total_transactions
               /\ stats.total_debit = overview.total_debit
               /\ stats.total_credit = overview.total_credit
               /\ stats.net_balance = overview.net_balance
               /\ stats.total_amount = stats.total_debit + stats.total_credit

\* every stored record has a user_id and is a debit or a credit
DebitsAndCredits ==
    \A i \in 1..Len(transactions) :
        /\ "user_id" \in DOMAIN transactions[i]
        /\ Get(transactions[i], "type", "") \in {"debit", "credit"}

\* C30 on the lists that hold debits and credits only
C30_OnDebitsAndCredits ==
    (out.op = StatsOp /\ is_ready /\ transactions # <<>> /\ DebitsAndCredits) =>
        /\ out.status = "ok"
        /\ SummaryOfStore.status = "ok"
        /\ LET stats == out.res
               overview == SummaryOfStore.res.overview
           IN  /\ stats.total_transactions = overview.total_transactions
               /\ stats.total_debit = overview.total_debit
               /\ stats.total_credit = overview.total_credit
               /\ stats.net_balance = overview.net_balance
               /\ stats.total_amount = stats.total_debit + stats.total_credit

====
